---- MODULE Spec2Model ----
(***************************************************************************)
(* Model of the Ansible callback plugin merizrizal.utils.custom_logging    *)
(* (plugins/callback/custom_logging.py): the CallbackModule object, the    *)
(* root logger it configures with logging.basicConfig, and the records     *)
(* its notification handlers append to the log file.                       *)
(*                                                                         *)
(* Text is a tuple of one-character strings.  A log record is a TLA+       *)
(* record whose fields are the pieces the handler's f-string puts          *)
(* together; the '%(asctime)s.%(msecs)03d | ' prefix the formatter adds    *)
(* to every record is left out.  Points in time are counted in ticks of    *)
(* 1/TicksPerSecond second.                                                *)
(***************************************************************************)
EXTENDS Integers, Sequences, FiniteSets, TLC

\* ------------------------------------------------------------------ bounds

\* Steps (notifications and clock advances) in one behaviour.
MaxEvents == 4

\* Steps in one behaviour of SpecRedact and of SpecTime.
MaxRedactSteps == 3

MaxTimeSteps == 3

\* Resolution of the clock: ticks per second (datetime has 10^6).
TicksPerSecond == 2

\* ------------------------------------------------------------------- text

\* ''.join(xs) of a sequence of texts.
RECURSIVE Concat(_)
Concat(xs) == IF xs = <<>> THEN <<>> ELSE Head(xs) \o Concat(Tail(xs))

DigitChar == <<"0", "1", "2", "3", "4", "5", "6", "7", "8", "9">>

\* str(n) of a natural number.
RECURSIVE str(_)
str(n) == IF n < 10 THEN <<DigitChar[n + 1]>>
          ELSE str(n \div 10) \o <<DigitChar[(n % 10) + 1]>>

\* ansible.utils.display.get_text_width on ASCII text: one column per character.
get_text_width(text) == Len(text)

\* CallbackModule._write_text_with_tab: text followed by char * (width - text width);
\* a negative count repeats nothing.
_write_text_with_tab(text, width, char) ==
    text \o [i \in 1..(width - get_text_width(text)) |-> char]

\* ------------------------------------------------------------------- time

DayTicks == 86400 * TicksPerSecond

\* datetime.strftime(TIME_FORMAT), '%Y-%m-%d %H:%M:%S': the date (as a day number)
\* and the hour, minute and second; the fraction of the second is dropped.
TIME_FORMAT(t) ==
    LET s == (t % DayTicks) \div TicksPerSecond
    IN  <<t \div DayTicks, s \div 3600, (s \div 60) % 60, s % 60>>

\* datetime.strftime('%Y-%m-%d-%H-%M-%S-%f'): as TIME_FORMAT, then the fraction.
SUFFIX_FORMAT(t) == TIME_FORMAT(t) \o <<t % TicksPerSecond>>

\* end - start of two datetimes: a timedelta, normalised so that
\* 0 <= seconds < 86400 and 0 <= microseconds < one second.
timedelta(start, end) ==
    LET d == end - start
    IN  [days         |-> d \div DayTicks,
         seconds      |-> (d % DayTicks) \div TicksPerSecond,
         microseconds |-> d % TicksPerSecond]

\* ------------------------------------------------------------------ paths

\* s.split(sep) of a text: the pieces between the separators.
RECURSIVE Split(_, _)
Split(s, sep) ==
    IF \A i \in 1..Len(s) : s[i] # sep THEN <<s>>
    ELSE LET i == CHOOSE i \in 1..Len(s) :
                      s[i] = sep /\ \A j \in 1..(i - 1) : s[j] # sep
         IN  <<SubSeq(s, 1, i - 1)>> \o Split(SubSeq(s, i + 1, Len(s)), sep)

\* pathlib.Path(text) on POSIX: the anchor ("/" for an absolute path) and the
\* parts; empty components and "." are dropped.
Path(text) ==
    [anchor |-> IF Len(text) > 0 /\ text[1] = "/" THEN "/" ELSE "",
     parts  |-> SelectSeq(Split(text, "/"), LAMBDA c : c # <<>> /\ c # <<".">>)]

\* Path.parent: the path without its last part (a path with no parts is its own parent).
parent(p) ==
    IF p.parts = <<>> THEN p
    ELSE [p EXCEPT !.parts = SubSeq(p.parts, 1, Len(p.parts) - 1)]

\* Path.name: the last part, '' when there is none.
name(p) == IF p.parts = <<>> THEN <<>> ELSE p.parts[Len(p.parts)]

\* Path.stem: the name up to its last dot, when that dot is neither the first
\* nor the last character of the name; the whole name otherwise.
stem(p) ==
    LET n    == name(p)
        dots == {i \in 1..Len(n) : n[i] = "."}
    IN  IF dots = {} THEN n
        ELSE LET i == CHOOSE i \in dots : \A j \in dots : j <= i
             IN  IF 1 < i /\ i < Len(n) THEN SubSeq(n, 1, i - 1) ELSE n

\* Path.joinpath: an absolute argument replaces the path it is joined to.
joinpath(p, q) ==
    IF q.anchor = "/" THEN q
    ELSE [anchor |-> p.anchor, parts |-> p.parts \o q.parts]

\* f'{stem}-{LOG_FILE_SUFFIX}.log': the file name of the log file.
LogFileName(stemText, suffix) ==
    [stem |-> stemText, dash |-> "-", suffix |-> suffix, ext |-> ".log"]

\* The path of a log file: the directory and the file name in it.
NoPath == [dir |-> Path(<<>>), file |-> LogFileName(<<>>, <<>>)]

\* ------------------------------------------------------------------- json

\* The escape json.dumps writes for one character of a string.
JsonEscape(c) == IF c = "\"" THEN <<"\\", "\"">>
                 ELSE IF c = "\\" THEN <<"\\", "\\">>
                 ELSE <<c>>

\* json.dumps of a str: the escaped characters between double quotes.
JsonString(text) ==
    <<"\"">> \o Concat([i \in 1..Len(text) |-> JsonEscape(text[i])]) \o <<"\"">>

\* Whether json.dumps can serialise the result dict: it raises TypeError on a
\* value of a type it does not know, here a Python set under the key "obj".
JsonSerializable(result) == result.obj # "set"

\* json.dumps(result._result) of a serialisable dict {"changed": ..., "msg": ...}.
json_dumps(result) ==
    <<"{", "\"", "c", "h", "a", "n", "g", "e", "d", "\"", ":", " ">>
    \o (IF result.changed THEN <<"t", "r", "u", "e">> ELSE <<"f", "a", "l", "s", "e">>)
    \o <<",", " ", "\"", "m", "s", "g", "\"", ":", " ">>
    \o JsonString(result.msg)
    \o <<"}">>

\* --------------------------------------------------------------------- re

\* The mask token of _log: 33 asterisks.
MASK == [i \in 1..33 |-> "*"]

\* Whether re.compile accepts the pattern.  The patterns of this model are made
\* of ordinary characters, "." and "("; they hold no ")", so a "(" opens a
\* group that is never closed and re raises re.error.
re_compiles(mask) == \A i \in 1..Len(mask) : mask[i] # "("

\* Whether the pattern matches data at position i: "." matches any character,
\* every other character matches itself.
MatchAt(mask, data, i) ==
    /\ i + Len(mask) - 1 <= Len(data)
    /\ \A k \in 1..Len(mask) : mask[k] = "." \/ mask[k] = data[i + k - 1]

\* The positions from i on where the pattern matches; behind the last character
\* only the empty pattern does.
MatchesFrom(mask, data, i) == {j \in i..(Len(data) + 1) : MatchAt(mask, data, j)}

\* The scan of re.sub from position i: the text up to the leftmost match is
\* kept, the match is replaced, and the scan goes on behind it; behind an empty
\* match it first keeps one character.
RECURSIVE SubFrom(_, _, _, _)
SubFrom(mask, repl, data, i) ==
    LET found == MatchesFrom(mask, data, i)
    IN  IF found = {} THEN SubSeq(data, i, Len(data))
        ELSE LET j == CHOOSE j \in found : \A k \in found : j <= k
             IN  SubSeq(data, i, j - 1) \o repl \o
                 (IF mask # <<>> THEN SubFrom(mask, repl, data, j + Len(mask))
                  ELSE IF j > Len(data) THEN <<>>
                  ELSE <<data[j]>> \o SubFrom(mask, repl, data, j + 1))

\* re.sub with count=1: only the leftmost match is replaced.
SubFirstFrom(mask, repl, data, i) ==
    LET found == MatchesFrom(mask, data, i)
    IN  IF found = {} THEN SubSeq(data, i, Len(data))
        ELSE LET j == CHOOSE j \in found : \A k \in found : j <= k
             IN  SubSeq(data, i, j - 1) \o repl
                 \o SubSeq(data, j + Len(mask), Len(data))

re_sub_first(mask, repl, data) == SubFirstFrom(mask, repl, data, 1)

\* re.sub(mask, repl, data) of a pattern that compiles.
re_sub(mask, repl, data) == SubFrom(mask, repl, data, 1)

\* ----------------------------------------------------------------- sorted

\* ord() of the characters host names are made of here.
ord(c) == CASE c = "0" -> 48 [] c = "1" -> 49 [] c = "2" -> 50
            [] c = "W" -> 87 [] c = "b" -> 98 [] c = "d" -> 100
            [] c = "e" -> 101 [] c = "w" -> 119

\* a < b of two str: code point order, a proper prefix first.
RECURSIVE StrLess(_, _)
StrLess(a, b) ==
    IF b = <<>> THEN FALSE
    ELSE IF a = <<>> THEN TRUE
    ELSE IF ord(Head(a)) # ord(Head(b)) THEN ord(Head(a)) < ord(Head(b))
    ELSE StrLess(Tail(a), Tail(b))

\* The keys as they come, unsorted.
unsorted(keys) == keys

\* sorted(keys): ascending.
RECURSIVE sorted(_)
sorted(keys) ==
    IF keys = <<>> THEN <<>>
    ELSE LET i == CHOOSE i \in 1..Len(keys) :
                      \A j \in 1..Len(keys) : ~StrLess(keys[j], keys[i])
         IN  <<keys[i]>> \o sorted(SubSeq(keys, 1, i - 1) \o SubSeq(keys, i + 1, Len(keys)))

\* ------------------------------------------------------------ log records

\* SEPARATOR = '=' * 150
SEPARATOR == [i \in 1..150 |-> "="]

\* f'PLAYBOOK [{self.playbook}] \r\n'
PlaybookRecord(file_name) == [kind |-> "PLAYBOOK", text |-> file_name]

\* f'BEGIN TASK [{task.get_name()}]', then the separator rule.
TaskRecords(task_name) ==
    <<[kind |-> "BEGIN TASK", text |-> task_name],
      [kind |-> "SEPARATOR", text |-> SEPARATOR]>>

\* f'{self._write_text_with_tab(host, 18)} => {category}'
HeaderRecord(host, category) ==
    [kind |-> "header", host |-> _write_text_with_tab(host, 18, " "),
     category |-> category]

\* f'{data} \r\n'
BodyRecord(data) == [kind |-> "body", data |-> data]

\* RECAP_FORMAT % {...}: the host padded to 20 columns, each count to 4.
RecapRecord(host, summary) ==
    [kind        |-> "recap",
     host        |-> _write_text_with_tab(host, 20, " "),
     ok          |-> _write_text_with_tab(str(summary.ok), 4, " "),
     changed     |-> _write_text_with_tab(str(summary.changed), 4, " "),
     unreachable |-> _write_text_with_tab(str(summary.unreachable), 4, " "),
     failures    |-> _write_text_with_tab(str(summary.failures), 4, " "),
     skipped     |-> _write_text_with_tab(str(summary.skipped), 4, " "),
     rescued     |-> _write_text_with_tab(str(summary.rescued), 4, " "),
     ignored     |-> _write_text_with_tab(str(summary.ignored), 4, " ")]

\* ------------------------------------------------------------------ state

VARIABLES
    LOG_FILE_SUFFIX,  \* class attribute: strftime of datetime.now() when the class body ran
    path,             \* self.path
    playbook,         \* self.playbook
    start_time_now,   \* self.start_time_now
    start_time,       \* self.start_time
    log_directory,    \* self.log_directory
    root,             \* the root logger: its level and its handlers (file names)
    log,              \* the records in the file of the root logger's handler
    display,          \* the banners handed to self._display
    clock,            \* what datetime.now() returns
    steps,            \* steps taken so far
    last,             \* the notification delivered last and how its handler ended
    runs              \* every run started: its script, its start time, its log file

vars == <<LOG_FILE_SUFFIX, path, playbook, start_time_now, start_time, log_directory,
          root, log, display, clock, steps, last, runs>>

\* A task result with nothing in it.
NoResult == [host |-> <<>>,
             result |-> [changed |-> FALSE, msg |-> <<>>, obj |-> "absent"],
             custom_logging_mask |-> <<>>]

\* Aggregate statistics of no host.
NoStats == [processed |-> <<>>, tallies |-> [h \in {} |-> 0]]

NoNotification ==
    [op |-> "none", raised |-> "", before |-> 0, session |-> "Uninitialized",
     playbook |-> <<>>, category |-> "", result |-> NoResult, stats |-> NoStats,
     at |-> 0]

\* The session of the specification's state machine, read off the logger and the
\* log: no stream before basicConfig; Closed when the record written last is the
\* elapsed-time record that ends v2_playbook_on_stats.
Session ==
    IF root.handlers = <<>> THEN "Uninitialized"
    ELSE IF log # <<>> /\ log[Len(log)].kind = "took" THEN "Closed"
    ELSE "Active"

\* The state after the class body, __init__ and set_options have run at time t
\* with option log_directory = dir.
InitWith(dir, t) ==
    /\ LOG_FILE_SUFFIX = SUFFIX_FORMAT(t)
    /\ path = NoPath
    /\ playbook = <<>>
    /\ start_time_now = t
    /\ start_time = TIME_FORMAT(t)
    /\ log_directory = dir
    /\ root = [level |-> "WARNING", handlers |-> <<>>]
    /\ log = <<>>
    /\ display = <<>>
    /\ clock = t
    /\ steps = 0
    /\ last = NoNotification
    /\ runs = {}

\* ---------------------------------------------------------------- logging

\* logging.basicConfig(filename=..., level=logging.DEBUG): does nothing when the
\* root logger already has a handler.
basicConfig(r, filename) ==
    IF r.handlers # <<>> THEN r
    ELSE [level |-> "DEBUG", handlers |-> <<filename>>]

\* self.logger.info(record), once per record: the logger has no level of its
\* own, so the root's level decides, and INFO passes DEBUG but not WARNING.
logger_info(r, file, records) ==
    IF r.level = "DEBUG" /\ r.handlers # <<>> THEN file \o records ELSE file

\* ---------------------------------------------------------------- handlers

\* The mask loop of _log over the patterns from position i on: "re.error" when
\* a pattern does not compile, the redacted data otherwise.
RECURSIVE MaskLoop(_, _, _)
MaskLoop(masks, data, i) ==
    IF i > Len(masks) THEN [raised |-> "", data |-> data]
    ELSE IF ~re_compiles(masks[i]) THEN [raised |-> "re.error", data |-> data]
    ELSE MaskLoop(masks, re_sub(masks[i], MASK, data), i + 1)

\* CallbackModule._log: what it raises and the records it hands to the logger.
_log(result, category) ==
    IF ~JsonSerializable(result.result) THEN [raised |-> "TypeError", records |-> <<>>]
    ELSE LET m == MaskLoop(result.custom_logging_mask, json_dumps(result.result), 1)
         IN  IF m.raised # "" THEN [raised |-> m.raised, records |-> <<>>]
             ELSE [raised |-> "",
                   records |-> <<HeaderRecord(result.host, category),
                                 BodyRecord(m.data)>>]

\* A host-result notification: the handler calls _log with its category.
HostResult(result, category) ==
    LET out == _log(result, category)
    IN  /\ steps < MaxEvents
        /\ steps' = steps + 1
        /\ log' = logger_info(root, log, out.records)
        /\ last' = [NoNotification EXCEPT !.op = "result", !.raised = out.raised,
                       !.before = Len(log), !.session = Session,
                       !.category = category, !.result = result, !.at = clock]
        /\ UNCHANGED <<LOG_FILE_SUFFIX, path, playbook, start_time_now, start_time,
                       log_directory, root, display, clock, runs>>

\* The category without the blank between FAILED and the ignore text.
FailedCategoryNoBlank(ignore_errors) ==
    "FAILED" \o (IF ignore_errors THEN ".....ignoring" ELSE "")

\* v2_runner_on_failed: 'FAILED ' followed by the ignore text.
FailedCategory(ignore_errors) ==
    "FAILED " \o (IF ignore_errors THEN ".....ignoring" ELSE "")

v2_runner_on_failed(result, ignore_errors) ==
    HostResult(result, FailedCategory(ignore_errors))

v2_runner_on_ok(result) == HostResult(result, "OK")

v2_runner_on_skipped(result) == HostResult(result, "SKIPPED")

v2_runner_on_unreachable(result) == HostResult(result, "UNREACHABLE")

v2_runner_on_async_failed(result) == HostResult(result, "ASYNC_FAILED")

v2_playbook_on_task_start(task_name) ==
    /\ steps < MaxEvents
    /\ steps' = steps + 1
    /\ log' = logger_info(root, log, TaskRecords(task_name))
    /\ last' = [NoNotification EXCEPT !.op = "task", !.before = Len(log),
                   !.session = Session, !.at = clock]
    /\ UNCHANGED <<LOG_FILE_SUFFIX, path, playbook, start_time_now, start_time,
                   log_directory, root, display, clock, runs>>

\* CallbackModule._make_log_file_path: the path of the log file of a run script.
_make_log_file_path(dir, file_name, suffix) ==
    LET playbook_path    == Path(file_name)
        log_subdirectory == joinpath(Path(dir), parent(playbook_path))
    IN  [dir |-> log_subdirectory, file |-> LogFileName(stem(playbook_path), suffix)]

v2_playbook_on_start(file_name) ==
    LET new_path == _make_log_file_path(log_directory, file_name, LOG_FILE_SUFFIX)
        new_root == basicConfig(root, new_path)
    IN  /\ steps < MaxEvents
        /\ steps' = steps + 1
        /\ playbook' = file_name
        /\ path' = new_path
        /\ root' = new_root
        /\ log' = logger_info(new_root, log, <<PlaybookRecord(file_name)>>)
        /\ last' = [NoNotification EXCEPT !.op = "start", !.before = Len(log),
                       !.session = Session, !.playbook = file_name, !.at = clock]
        /\ runs' = runs \cup {[playbook |-> file_name, at |-> clock, path |-> new_path]}
        /\ UNCHANGED <<LOG_FILE_SUFFIX, start_time_now, start_time, log_directory,
                       display, clock>>

\* stats.summarize(host): the tallies the statistics hold for the host.
summarize(stats, host) == stats.tallies[host]

\* CallbackModule._write_summary: one recap record per processed host.
_write_summary(stats) ==
    LET hosts == sorted(stats.processed)
    IN  [i \in 1..Len(hosts) |-> RecapRecord(hosts[i], summarize(stats, hosts[i]))]

\* A full decomposition instead: the days of the timedelta counted into the hours.
ElapsedWithDays(start, end) ==
    LET runtime == timedelta(start, end)
        total   == runtime.days * 86400 + runtime.seconds
    IN  [hours   |-> total \div 3600,
         minutes |-> (total \div 60) % 60,
         seconds |-> total % 60]

\* The elapsed hours, minutes and seconds of _write_time_calculation.
Elapsed(start, end) ==
    LET runtime == timedelta(start, end)
    IN  [hours   |-> runtime.seconds \div 3600,
         minutes |-> (runtime.seconds \div 60) % 60,
         seconds |-> runtime.seconds % 60]

\* start_text and finish_text of _write_time_calculation.
StartText(started) ==
    [kind  |-> "started",
     label |-> _write_text_with_tab(
                   <<"P", "l", "a", "y", "b", "o", "o", "k", " ", "w", "a", "s", " ",
                     "s", "t", "a", "r", "t", "e", "d">>, 20, " "),
     time  |-> started]

FinishText(finished) ==
    [kind  |-> "finished",
     label |-> _write_text_with_tab(
                   <<"P", "l", "a", "y", "b", "o", "o", "k", " ",
                     "f", "i", "n", "i", "s", "h", "e", "d">>, 20, " "),
     time  |-> finished]

\* f'Playbook run took {hours} hours, {minutes} minutes, {seconds} seconds\n\r'
TookRecord(e) ==
    [kind |-> "took", hours |-> str(e.hours), minutes |-> str(e.minutes),
     seconds |-> str(e.seconds)]

\* CallbackModule._write_time_calculation at time now: the three records.
_write_time_calculation(now) ==
    <<StartText(start_time), FinishText(TIME_FORMAT(now)),
      TookRecord(Elapsed(start_time_now, now))>>

\* play_recap_text: 70 asterisks, then 'PLAY RECAP ' filled to 80 columns.
play_recap_text ==
    _write_text_with_tab(<<>>, 70, "*")
    \o _write_text_with_tab(<<"P", "L", "A", "Y", " ", "R", "E", "C", "A", "P", " ">>,
                            80, "*")

v2_playbook_on_stats(stats) ==
    LET records == <<[kind |-> "SEPARATOR", text |-> SEPARATOR],
                     [kind |-> "banner", text |-> play_recap_text]>>
                   \o _write_summary(stats)
                   \o _write_time_calculation(clock)
    IN  /\ steps < MaxEvents
        /\ steps' = steps + 1
        /\ log' = logger_info(root, log, records)
        /\ display' = display \o <<StartText(start_time), FinishText(TIME_FORMAT(clock))>>
        /\ last' = [NoNotification EXCEPT !.op = "stats", !.before = Len(log),
                       !.session = Session, !.stats = stats, !.at = clock]
        /\ UNCHANGED <<LOG_FILE_SUFFIX, path, playbook, start_time_now, start_time,
                       log_directory, root, clock, runs>>

\* Time passes: datetime.now() moves on by d ticks.
Tick(d) ==
    /\ steps < MaxEvents
    /\ steps' = steps + 1
    /\ clock' = clock + d
    /\ last' = [NoNotification EXCEPT !.op = "tick", !.before = Len(log),
                   !.session = Session, !.at = clock]
    /\ UNCHANGED <<LOG_FILE_SUFFIX, path, playbook, start_time_now, start_time,
                   log_directory, root, log, display, runs>>

\* ----------------------------------------------------------------- inputs

web1 == <<"w", "e", "b", "1">>
web2 == <<"w", "e", "b", "2">>
web10 == <<"w", "e", "b", "1", "0">>
Web2 == <<"W", "e", "b", "2">>
db1 == <<"d", "b", "1">>
Hosts == {web1, web2, web10, Web2, db1}

secret123 == <<"s", "e", "c", "r", "e", "t", "1", "2", "3">>

\* Run scripts: playbook._file_name as given on the command line.
site_yml == <<"s", "i", "t", "e", ".", "y", "m", "l">>
plays_site_yml == <<"p", "l", "a", "y", "s", "/", "s", "i", "t", "e", ".", "y", "m", "l">>
abs_plays_site_yml ==
    <<"/", "p", "l", "a", "y", "s", "/", "s", "i", "t", "e", ".", "y", "m", "l">>

\* The option log_directory: its default './log' and an absolute directory.
default_log_directory == <<".", "/", "l", "o", "g">>
var_log_ansible ==
    <<"/", "v", "a", "r", "/", "l", "o", "g", "/", "a", "n", "s", "i", "b", "l", "e">>

TaskNames == {<<"G", "a", "t", "h", "e", "r", " ", "f", "a", "c", "t", "s">>}

\* A result whose payload holds the secret, with the secret as its mask pattern.
MaskedResult ==
    [host |-> web1,
     result |-> [changed |-> TRUE,
                 msg |-> <<"l", "o", "g", "i", "n", " ">> \o secret123
                         \o <<" ">> \o secret123,
                 obj |-> "absent"],
     custom_logging_mask |-> <<secret123>>]

\* The same payload with a second mask pattern that is no regular expression.
BadPatternResult ==
    [MaskedResult EXCEPT !.host = web2, !.custom_logging_mask = <<secret123, <<"(">>>>]

\* A payload json.dumps cannot serialise, and no mask patterns.
UnserializableResult ==
    [host |-> db1,
     result |-> [changed |-> FALSE, msg |-> <<"o", "k">>, obj |-> "set"],
     custom_logging_mask |-> <<>>]

Results == {MaskedResult, BadPatternResult, UnserializableResult}

Tally(h) ==
    IF h = web1
    THEN [ok |-> 5, changed |-> 1, unreachable |-> 0, failures |-> 0, skipped |-> 2,
          rescued |-> 0, ignored |-> 0]
    ELSE [ok |-> 12, changed |-> 0, unreachable |-> 1, failures |-> 3, skipped |-> 0,
          rescued |-> 1, ignored |-> 104]

\* Aggregate statistics whose processed dict holds the hosts in the order given.
StatsOf(processed) == [processed |-> processed, tallies |-> [h \in Hosts |-> Tally(h)]]

StatsInputs ==
    {StatsOf(<<>>), StatsOf(<<web1>>), StatsOf(<<web2, web1>>), StatsOf(<<web1, web2>>),
     StatsOf(<<web2, db1, web10, Web2>>)}

\* ---------------------------------------------------------- specifications

Init == InitWith(default_log_directory, 0)

Next ==
    \/ \E f \in {site_yml, abs_plays_site_yml} : v2_playbook_on_start(f)
    \/ \E t \in TaskNames : v2_playbook_on_task_start(t)
    \/ \E r \in Results : v2_runner_on_ok(r)
    \/ \E r \in Results, ignore_errors \in BOOLEAN : v2_runner_on_failed(r, ignore_errors)
    \/ \E r \in Results : v2_runner_on_skipped(r)
    \/ \E r \in Results : v2_runner_on_unreachable(r)
    \/ \E r \in Results : v2_runner_on_async_failed(r)
    \/ \E s \in StatsInputs : v2_playbook_on_stats(s)
    \/ Tick(1)

\* The plugin driven by the engine: any notification at any time, one at a time.
Spec == Init /\ [][Next]_vars

\* Payloads and mask patterns over a small alphabet: ordinary characters a and
\* b and a double quote in the payload; a, b, the wildcard "." and "(" in the
\* patterns.
RedactMsgs == {<<"a", "b", "a", "b">>, <<"a", "a", "b">>, <<"a", "\"", "b", "a">>}

RedactMasks ==
    {<<>>,
     <<<<"a">>>>, <<<<"a", "b">>>>, <<<<"b", "a">>>>,
     <<<<"a", "b">>, <<"b", "a">>>>, <<<<"b", "a">>, <<"a", "b">>>>,
     <<<<"a">>, <<"a", "b">>>>, <<<<"a", "b">>, <<"a">>>>,
     <<<<"a", ".">>>>, <<<<"a", "b">>, <<"a", ".">>>>,
     <<<<"(">>>>, <<<<"a", "b">>, <<"(">>>>,
     <<<<>>>>}

RedactResults ==
    {[host |-> db1, result |-> [changed |-> TRUE, msg |-> m, obj |-> "absent"],
      custom_logging_mask |-> ms] : m \in RedactMsgs, ms \in RedactMasks}

NextRedact ==
    \/ steps < MaxRedactSteps /\ v2_playbook_on_start(site_yml)
    \/ \E r \in RedactResults : steps < MaxRedactSteps /\ v2_runner_on_ok(r)
    \/ \E ignore_errors \in BOOLEAN :
           steps < MaxRedactSteps /\ v2_runner_on_failed(MaskedResult, ignore_errors)
    \/ steps < MaxRedactSteps /\ v2_runner_on_skipped(MaskedResult)
    \/ steps < MaxRedactSteps /\ v2_runner_on_unreachable(MaskedResult)
    \/ steps < MaxRedactSteps /\ v2_runner_on_async_failed(MaskedResult)

\* Host results over many payloads and mask patterns.
SpecRedact == Init /\ [][NextRedact]_vars

\* Steps of the clock: less than a second (one tick); in whole seconds a second,
\* a minute less a second, an hour, a day less a second, a day, and a day, an
\* hour, a minute and a second; and the last of these and a tick.
Deltas ==
    {1, 90061 * TicksPerSecond + 1}
    \cup {n * TicksPerSecond : n \in {1, 59, 3600, 86399, 86400, 90061}}

InitTime ==
    \E dir \in {default_log_directory, var_log_ansible}, t \in {0, 1} : InitWith(dir, t)

NextTime ==
    \/ \E f \in {site_yml, plays_site_yml, abs_plays_site_yml} :
           steps < MaxTimeSteps /\ v2_playbook_on_start(f)
    \/ \E d \in Deltas : steps < MaxTimeSteps /\ Tick(d)
    \/ steps < MaxTimeSteps /\ v2_playbook_on_stats(StatsOf(<<web1>>))

\* Runs started and ended at many points in time, with either log directory.
SpecTime == InitTime /\ [][NextTime]_vars

\* ----------------------------------------------------------------- claims

\* The records the notification delivered last appended to the log.
New == SubSeq(log, last.before + 1, Len(log))

\* Whether text p occurs in text s as a substring (Python's `p in s`).
Contains(s, p) ==
    \E i \in 1..(Len(s) - Len(p) + 1) : SubSeq(s, i, i + Len(p) - 1) = p

\* The text without the blanks that pad it on the right.
Stripped(text) ==
    LET keep == {i \in 1..Len(text) : text[i] # " "}
    IN  IF keep = {} THEN <<>>
        ELSE SubSeq(text, 1, CHOOSE i \in keep : \A j \in keep : j <= i)

\* A mask pattern that is a literal string: not empty, and made of characters
\* that stand for themselves in a regular expression.
Literal(mask) == mask # <<>> /\ \A i \in 1..Len(mask) : mask[i] \notin {".", "("}

\* C1: the session only moves Uninitialized -> Active on run start and
\* Active -> Closed on run stats, and a run start delivered to a Closed session
\* raises an error and neither writes to the log nor touches the logger.
C1_SessionLifecycle ==
    /\ Session # last.session =>
           \/ last.session = "Uninitialized" /\ Session = "Active" /\ last.op = "start"
           \/ last.session = "Active" /\ Session = "Closed" /\ last.op = "stats"
    /\ (last.op = "start" /\ last.session = "Closed") =>
           last.raised # "" /\ New = <<>>

\* C2: the body record of a host result whose mask patterns are all literal
\* strings holds no occurrence of any of them; it holds the mask token when a
\* pattern occurs in the serialized payload and is that payload when none does.
C2_NoPatternLeft ==
    (last.op = "result" /\ New # <<>>) =>
        LET body  == log[Len(log)]
            masks == last.result.custom_logging_mask
            data  == json_dumps(last.result.result)
        IN  /\ body.kind = "body"
            /\ (\A i \in 1..Len(masks) : Literal(masks[i])) =>
                   /\ \A i \in 1..Len(masks) : ~Contains(body.data, masks[i])
                   /\ (\E i \in 1..Len(masks) : Contains(data, masks[i]))
                          => Contains(body.data, MASK)
                   /\ (\A i \in 1..Len(masks) : ~Contains(data, masks[i]))
                          => body.data = data

\* A host result with two literal patterns that both occur in the payload was logged.
C2_Witness ==
    /\ last.op = "result" /\ New # <<>>
    /\ Len(last.result.custom_logging_mask) = 2
    /\ \A i \in 1..2 :
           /\ Literal(last.result.custom_logging_mask[i])
           /\ Contains(json_dumps(last.result.result), last.result.custom_logging_mask[i])
    /\ last.result.custom_logging_mask[1] # last.result.custom_logging_mask[2]
    /\ Contains(log[Len(log)].data, MASK)

\* C3: a host result with a mask pattern that is no regular expression does not
\* raise out of its handler, and no record with the unredacted payload is written.
C3_BadPatternContained ==
    (/\ last.op = "result"
     /\ JsonSerializable(last.result.result)
     /\ \E i \in 1..Len(last.result.custom_logging_mask) :
            ~re_compiles(last.result.custom_logging_mask[i])) =>
        /\ last.raised = ""
        /\ \A i \in 1..Len(New) :
               New[i].kind = "body" => New[i].data # json_dumps(last.result.result)

\* C4: a host result whose payload cannot be serialized does not raise out of
\* its handler; with the log stream open it writes its header and a body.
C4_UnserializableContained ==
    (last.op = "result" /\ ~JsonSerializable(last.result.result)) =>
        /\ last.raised = ""
        /\ last.session # "Uninitialized" =>
               Len(New) = 2 /\ New[1].kind = "header" /\ New[2].kind = "body"

\* C5: in an Active session every host result appends exactly two records:
\* the header with its host and category, then a body.
C5_HeaderThenBody ==
    (last.op = "result" /\ last.session = "Active") =>
        /\ Len(New) = 2
        /\ New[1].kind = "header"
        /\ Stripped(New[1].host) = last.result.host
        /\ New[1].category = last.category
        /\ New[2].kind = "body"

\* Whether path p lies under directory d: d's parts are a prefix of p's.
IsUnder(p, d) ==
    /\ p.anchor = d.anchor
    /\ Len(d.parts) <= Len(p.parts)
    /\ SubSeq(p.parts, 1, Len(d.parts)) = d.parts

\* C6: the log file of a run lies under log_directory and is named after the
\* run script: its stem, '-', the suffix, '.log'; for /plays/site.yml and
\* ./log it is ./log/site-<suffix>.log.
C6_PathUnderLogDirectory ==
    last.op = "start" =>
        /\ IsUnder(path.dir, Path(log_directory))
        /\ path.file = LogFileName(stem(Path(last.playbook)), LOG_FILE_SUFFIX)
        /\ (last.playbook = abs_plays_site_yml /\ log_directory = default_log_directory)
               => path.dir = Path(default_log_directory)

\* C7: two runs of the same run script that start at different times have
\* different log file paths.
C7_DistinctPaths ==
    \A r1, r2 \in runs :
        (r1.playbook = r2.playbook /\ r1.at # r2.at) => r1.path # r2.path

\* C8: with the log stream open, run stats writes the separator, the PLAY RECAP
\* banner, one recap record per processed host in ascending host-name order,
\* and then the start-time, finish-time and elapsed-time records.
C8_RecapSorted ==
    (last.op = "stats" /\ last.session # "Uninitialized") =>
        LET n == Len(last.stats.processed)
        IN  /\ Len(New) = n + 5
            /\ New[1].kind = "SEPARATOR"
            /\ New[2].kind = "banner"
            /\ \A i \in 1..n : New[2 + i].kind = "recap"
            /\ {Stripped(New[2 + i].host) : i \in 1..n}
                   = {last.stats.processed[i] : i \in 1..n}
            /\ \A i \in 1..n : \A j \in 1..n :
                   i < j => StrLess(Stripped(New[2 + i].host), Stripped(New[2 + j].host))
            /\ New[n + 3].kind = "started"
            /\ New[n + 4].kind = "finished"
            /\ New[n + 5].kind = "took"

\* Run stats for four hosts supplied out of order was logged.
C8_Witness ==
    /\ last.op = "stats" /\ last.session = "Active"
    /\ last.stats.processed = <<web2, db1, web10, Web2>>
    /\ Len(New) = 9
    /\ Stripped(New[3].host) = Web2

\* C9: the elapsed-time record holds the hours, minutes and seconds of
\* s = whole elapsed seconds modulo 86400: hours = s div 3600 <= 23,
\* minutes = (s div 60) mod 60, seconds = s mod 60, which add up to s; a run
\* of 24 hours or more reports fewer hours than elapsed.
C9_ElapsedOfDay ==
    (last.op = "stats" /\ New # <<>>) =>
        LET took    == log[Len(log)]
            elapsed == (clock - start_time_now) \div TicksPerSecond
            s       == elapsed % 86400
            h       == s \div 3600
            m       == (s \div 60) % 60
            sec     == s % 60
        IN  /\ took.kind = "took"
            /\ took.hours = str(h) /\ took.minutes = str(m) /\ took.seconds = str(sec)
            /\ h \in 0..23 /\ m \in 0..59 /\ sec \in 0..59
            /\ h * 3600 + m * 60 + sec = s
            /\ elapsed >= 86400 => h < elapsed \div 3600

\* The elapsed time of a run of more than a day, not a whole number of seconds, was logged.
C9_Witness ==
    /\ last.op = "stats" /\ New # <<>>
    /\ clock - start_time_now > DayTicks + 3600 * TicksPerSecond
    /\ (clock - start_time_now) % TicksPerSecond # 0
    /\ log[Len(log)].kind = "took"
    /\ log[Len(log)].hours = str(1)

\* C10 as stated: the category of every header is one of OK, FAILED, SKIPPED,
\* UNREACHABLE, ASYNC_FAILED.
C10_FiveCategories ==
    (last.op = "result" /\ New # <<>>) =>
        New[1].category \in {"OK", "FAILED", "SKIPPED", "UNREACHABLE", "ASYNC_FAILED"}

\* C10 amended: the category of every header is one of OK, SKIPPED, UNREACHABLE,
\* ASYNC_FAILED, 'FAILED ' (with a trailing blank) and 'FAILED .....ignoring';
\* the last two come from v2_runner_on_failed, without and with ignore_errors.
C10_Categories ==
    (last.op = "result" /\ New # <<>>) =>
        /\ New[1].kind = "header"
        /\ New[1].category = last.category
        /\ New[1].category \in {"OK", "SKIPPED", "UNREACHABLE", "ASYNC_FAILED",
                                "FAILED ", "FAILED .....ignoring"}

\* A failed result with ignore_errors was logged.
C10_Witness ==
    /\ last.op = "result" /\ New # <<>>
    /\ New[1].category = "FAILED .....ignoring"
====
